---------------------------- MODULE Spec2Model ----------------------------
(***************************************************************************)
(* Model of the two utilities of the blog repository:                      *)
(*                                                                         *)
(*   - the recent_posts macro of main.py, which scans the pages of the     *)
(*     site, keeps the front matter of the pages typed "post", sorts it by *)
(*     date (latest first) and returns the first `limit` entries;          *)
(*   - the scaffolding script scripts/new_post.py, which builds a Post,    *)
(*     slugifies its title and writes the templated file.                  *)
(*                                                                         *)
(* Optional values (a key of a mapping that may be absent, an argument     *)
(* that may be None) are sequences of length 0 or 1: None is <<>> and      *)
(* Some(x) is <<x>>.  Strings that are scanned character by character      *)
(* (titles, slugs, ISO dates) are sequences of one-character strings.      *)
(***************************************************************************)
EXTENDS Integers, Sequences, FiniteSets

VARIABLES
    \* ---- recent_posts (main.py) ----
    pages,      \* the page set handed to the macro: a sequence of page handles
    pc,         \* position of the running call, "idle" between calls
    limit,      \* the `limit` argument of the running call
    idx,        \* index of the page the for loop is at
    handles,    \* indices of the pages whose file is open
    metadata,   \* the local `metadata` of the current loop iteration
    posts,      \* the local list `posts`
    scanned,    \* the metadata mapping of every iteration finished so far
    opens,      \* per page: how often the running call opened its file
    reads,      \* per page: how often the running call read and parsed it
    last,       \* the last call that returned, if any: its limit and result
    error,      \* the exception that ended the call, "none" if none did
    \* ---- scripts/new_post.py ----
    spc,        \* position of the script
    argv,       \* the command line: title and the optional --date string
    today,      \* what datetime.date.today() answers
    args,       \* the parsed arguments
    post,       \* the Post object
    written,    \* the file the script wrote
    exitcode    \* the exit status of the script

selectorVars == <<pages, pc, limit, idx, handles, metadata, posts, scanned,
                  opens, reads, last, error>>
scriptVars == <<spc, argv, today, args, post, written, exitcode>>
vars == <<pages, pc, limit, idx, handles, metadata, posts, scanned,
          opens, reads, last, error,
          spc, argv, today, args, post, written, exitcode>>

---------------------------------------------------------------------------
(* Bounds of the model. *)

MaxPages == 3
MaxDate == 3

---------------------------------------------------------------------------
(* Optional values and small helpers. *)

None == <<>>
Some(x) == <<x>>

Min(a, b) == IF a <= b THEN a ELSE b
Max(a, b) == IF a >= b THEN a ELSE b

---------------------------------------------------------------------------
(* Front matter and page handles. *)

\* A metadata mapping: the keys the macro looks at, each present or absent.
\* `src` is the path the mapping was read from (page.file.abs_src_path); it is
\* no key of the mapping, it identifies the object.
Meta(t, d, u) == [type |-> t, date |-> d, url |-> u]

NoMeta == [type |-> None, date |-> None, url |-> None, src |-> 0]

\* The front matter a page file may hold.
FrontMatters ==
    { Meta(Some("post"), Some(d), None) : d \in 1..MaxDate }
    \cup { Meta(Some("post"), None, None),
           Meta(Some("post"), Some(1), Some("/custom/")),
           Meta(Some("page"), Some(1), None),
           Meta(None, None, Some("/custom/")) }

\* page.file.url of the i-th page; the generator gives every page its own.
PageUrls == <<"/p1/", "/p2/", "/p3/", "/p4/", "/p5/", "/p6/">>

\* The i-th page handle with front matter fm in its file.
Page(i, fm) == [path |-> i, url |-> PageUrls[i], front |-> fm]

PageSeqs ==
    UNION { { [i \in 1..n |-> Page(i, f[i])] : f \in [1..n -> FrontMatters] }
            : n \in 0..MaxPages }

\* Three posts dated 2023-01-01, 2023-06-01 and 2023-03-01 (the 1st, 3rd and
\* 2nd date of the model) and one page that is no post.
ScenarioPages ==
    [i \in 1..4 |->
        Page(i, CASE i = 1 -> Meta(Some("post"), Some(1), None)
                  [] i = 2 -> Meta(Some("post"), Some(3), None)
                  [] i = 3 -> Meta(Some("post"), Some(2), None)
                  [] OTHER -> Meta(Some("page"), Some(1), None))]

\* The limits a template passes: None or a non-negative integer.
Limits == {None} \cup { Some(n) : n \in 0..MaxPages }

---------------------------------------------------------------------------
(* recent_posts, main.py lines 5-18. *)

\* meta.get_data(f.read()): a fresh mapping built from the file's front matter.
GetData(page) == [type |-> page.front.type, date |-> page.front.date,
                  url |-> page.front.url, src |-> page.path]

\* Faulty variant of IsPost: a mapping without a type counts as a post.
IsPostNoGet(m) == m.type # Some("page")

\* metadata.get('type') == 'post'
IsPost(m) == m.type = Some("post")

\* Faulty variant of SetUrl: metadata.setdefault('url', page.file.url).
SetUrlKeep(m, page) == IF m.url = None THEN [m EXCEPT !.url = Some(page.url)] ELSE m

\* metadata['url'] = page.file.url
SetUrl(m, page) == [m EXCEPT !.url = Some(page.url)]

\* x["date"] raises KeyError when the key is absent.
HasDate(m) == m.date # None
DateKey(m) == m.date[1]

\* Faulty variant of InsertDesc: the sort without reverse=True.
InsertAsc(s, e) ==
    LET k == Cardinality({ j \in 1..Len(s) : DateKey(s[j]) <= DateKey(e) })
    IN  SubSeq(s, 1, k) \o <<e>> \o SubSeq(s, k + 1, Len(s))

\* list.sort(key=..., reverse=True) is stable: entries with equal keys keep
\* the order they were appended in.  Inserting the entries in list order, each
\* behind every entry whose key is not smaller, computes that order.
InsertDesc(s, e) ==
    LET k == Cardinality({ j \in 1..Len(s) : DateKey(s[j]) >= DateKey(e) })
    IN  SubSeq(s, 1, k) \o <<e>> \o SubSeq(s, k + 1, Len(s))

RECURSIVE SortDesc(_)
SortDesc(s) ==
    IF s = <<>> THEN <<>>
    ELSE InsertDesc(SortDesc(SubSeq(s, 1, Len(s) - 1)), s[Len(s)])

\* `if limit:` is false for None and for 0.
Truthy(l) == l # None /\ l[1] # 0

\* Faulty variant of Slice: posts[:n + 1].
SliceOffByOne(s, n) == SubSeq(s, 1, Min(n + 1, Len(s)))

\* Faulty variant of Slice: posts[-n:], the last n entries.
SliceTail(s, n) == SubSeq(s, Max(1, Len(s) - n + 1), Len(s))

\* posts[:n]
Slice(s, n) ==
    IF n >= 0 THEN SubSeq(s, 1, Min(n, Len(s)))
    ELSE SubSeq(s, 1, Max(0, Len(s) + n))

\* Faulty variant of Call: posts is not emptied, as if the list were created
\* once in define_env.
CallStale(l) ==
    /\ pc = "idle"
    /\ limit' = l
    /\ idx' = 1
    /\ metadata' = NoMeta
    /\ scanned' = <<>>
    /\ opens' = [i \in 1..Len(pages) |-> 0]
    /\ reads' = [i \in 1..Len(pages) |-> 0]
    /\ pc' = "loop"
    /\ UNCHANGED <<pages, handles, posts, last, error>>
    /\ UNCHANGED scriptVars

\* The macro is called: line 6, posts = [], and the loop starts.
Call(l) ==
    /\ pc = "idle"
    /\ limit' = l
    /\ posts' = <<>>
    /\ idx' = 1
    /\ metadata' = NoMeta
    /\ scanned' = <<>>
    /\ opens' = [i \in 1..Len(pages) |-> 0]
    /\ reads' = [i \in 1..Len(pages) |-> 0]
    /\ pc' = "loop"
    /\ UNCHANGED <<pages, handles, last, error>>
    /\ UNCHANGED scriptVars

\* Line 8: open(page.file.abs_src_path, "r") succeeds.
Open ==
    /\ pc = "loop"
    /\ idx <= Len(pages)
    /\ handles' = handles \cup {idx}
    /\ opens' = [opens EXCEPT ![idx] = @ + 1]
    /\ pc' = "read"
    /\ UNCHANGED <<pages, limit, idx, metadata, posts, scanned, reads, last, error>>
    /\ UNCHANGED scriptVars

\* Line 8: open raises (the file is missing or unreadable); nothing was opened.
OpenFail ==
    /\ pc = "loop"
    /\ idx <= Len(pages)
    /\ opens' = [opens EXCEPT ![idx] = @ + 1]
    /\ error' = "OSError"
    /\ pc' = "raised"
    /\ UNCHANGED <<pages, limit, idx, handles, metadata, posts, scanned, reads, last>>
    /\ UNCHANGED scriptVars

\* Lines 9-12: read the file, parse its front matter, keep it if it is a post.
ReadParse ==
    /\ pc = "read"
    /\ reads' = [reads EXCEPT ![idx] = @ + 1]
    /\ LET m == GetData(pages[idx])
       IN  IF IsPost(m)
           THEN /\ metadata' = SetUrl(m, pages[idx])
                /\ posts' = Append(posts, SetUrl(m, pages[idx]))
           ELSE /\ metadata' = m
                /\ posts' = posts
    /\ pc' = "close"
    /\ UNCHANGED <<pages, limit, idx, handles, scanned, opens, last, error>>
    /\ UNCHANGED scriptVars

\* Faulty variant of ReadFail: the file is opened without a with statement
\* and stays open when the exception leaves the loop.
ReadFailLeak ==
    /\ pc = "read"
    /\ reads' = [reads EXCEPT ![idx] = @ + 1]
    /\ error' = "ReadError"
    /\ pc' = "raised"
    /\ UNCHANGED <<pages, limit, idx, handles, metadata, posts, scanned, opens, last>>
    /\ UNCHANGED scriptVars

\* Line 9: f.read() or meta.get_data raises; the with statement closes the
\* file as the exception leaves it.
ReadFail ==
    /\ pc = "read"
    /\ reads' = [reads EXCEPT ![idx] = @ + 1]
    /\ handles' = handles \ {idx}
    /\ error' = "ReadError"
    /\ pc' = "raised"
    /\ UNCHANGED <<pages, limit, idx, metadata, posts, scanned, opens, last>>
    /\ UNCHANGED scriptVars

\* The with block of line 8 ends: the file is closed and the loop moves on.
Close ==
    /\ pc = "close"
    /\ handles' = handles \ {idx}
    /\ scanned' = Append(scanned, metadata)
    /\ idx' = idx + 1
    /\ pc' = "loop"
    /\ UNCHANGED <<pages, limit, metadata, posts, opens, reads, last, error>>
    /\ UNCHANGED scriptVars

\* Faulty variant of Sort: the keys are taken only when there is something to
\* compare, so a list of one entry is never asked for its date.
SortSkipsSingle ==
    /\ pc = "loop"
    /\ idx > Len(pages)
    /\ IF Len(posts) >= 2 /\ \E i \in 1..Len(posts) : ~HasDate(posts[i])
       THEN /\ error' = "KeyError"
            /\ pc' = "raised"
            /\ posts' = posts
       ELSE /\ posts' = (IF Len(posts) >= 2 THEN SortDesc(posts) ELSE posts)
            /\ pc' = "limit"
            /\ error' = error
    /\ UNCHANGED <<pages, limit, idx, handles, metadata, scanned, opens, reads, last>>
    /\ UNCHANGED scriptVars

\* Line 14: posts.sort(key=lambda x: x["date"], reverse=True).  The key of
\* every entry is taken before anything is compared, so one entry without a
\* date raises KeyError whatever the length of the list.
Sort ==
    /\ pc = "loop"
    /\ idx > Len(pages)
    /\ IF \E i \in 1..Len(posts) : ~HasDate(posts[i])
       THEN /\ error' = "KeyError"
            /\ pc' = "raised"
            /\ posts' = posts
       ELSE /\ posts' = SortDesc(posts)
            /\ pc' = "limit"
            /\ error' = error
    /\ UNCHANGED <<pages, limit, idx, handles, metadata, scanned, opens, reads, last>>
    /\ UNCHANGED scriptVars

\* Lines 16-18: truncate when the limit is truthy, and return.
Return ==
    /\ pc = "limit"
    /\ LET result == IF Truthy(limit) THEN Slice(posts, limit[1]) ELSE posts
       IN  /\ posts' = result
           /\ last' = Some([limit |-> limit, result |-> result])
    /\ pc' = "idle"
    /\ UNCHANGED <<pages, limit, idx, handles, metadata, scanned, opens, reads, error>>
    /\ UNCHANGED scriptVars

---------------------------------------------------------------------------
(* scripts/new_post.py *)

MaxTitleLen == 3

\* The characters of the titles.  "U+2102" stands for the one character
\* DOUBLE-STRUCK CAPITAL C, an uppercase letter that has no lowercase form.
TitleAlphabet == {"H", "e", "_", "-", " ", "!", "U+2102"}

HelloWorld == <<"H", "e", "l", "l", "o", " ", "W", "o", "r", "l", "d">>

Titles ==
    UNION { [1..n -> TitleAlphabet] : n \in 0..MaxTitleLen } \cup {HelloWorld}

\* str.isupper of one character.
UpperChars == {"H", "W", "U+2102"}

\* The characters \w matches: letters, digits and the underscore.
WordChars == {"H", "W", "h", "w", "e", "l", "o", "r", "d", "_", "U+2102"}
IsWord(c) == c \in WordChars

\* str.lower of one character: only a character with a lowercase form changes.
LowerChar(c) ==
    CASE c = "H" -> "h"
      [] c = "W" -> "w"
      [] OTHER -> c
Lower(text) == [i \in 1..Len(text) |-> LowerChar(text[i])]

\* re.sub(r"\W+", "-", text): every maximal run of non-word characters
\* becomes one hyphen.
RECURSIVE SkipNonWord(_)
SkipNonWord(text) ==
    IF text = <<>> \/ IsWord(Head(text)) THEN text ELSE SkipNonWord(Tail(text))

RECURSIVE SubNonWordRuns(_)
SubNonWordRuns(text) ==
    IF text = <<>> THEN <<>>
    ELSE IF IsWord(Head(text)) THEN <<Head(text)>> \o SubNonWordRuns(Tail(text))
    ELSE <<"-">> \o SubNonWordRuns(SkipNonWord(Tail(text)))

\* str.strip("-"): drop the hyphens at both ends.
RECURSIVE LStrip(_)
LStrip(text) ==
    IF text # <<>> /\ Head(text) = "-" THEN LStrip(Tail(text)) ELSE text

RECURSIVE RStrip(_)
RStrip(text) ==
    IF text # <<>> /\ text[Len(text)] = "-"
    THEN RStrip(SubSeq(text, 1, Len(text) - 1)) ELSE text

Strip(text) == RStrip(LStrip(text))

\* Line 43: re.sub(r"\W+", "-", text.lower()).strip("-")
slugify(text) == Strip(SubNonWordRuns(Lower(text)))

\* Dates: a date is a record of year, month and day.
Date(y, m, d) == [y |-> y, m |-> m, d |-> d]

IsLeap(y) == (y % 4 = 0 /\ y % 100 # 0) \/ y % 400 = 0
DaysIn(y, m) ==
    CASE m = 2 -> (IF IsLeap(y) THEN 29 ELSE 28)
      [] m \in {4, 6, 9, 11} -> 30
      [] OTHER -> 31

DigitChars == <<"0", "1", "2", "3", "4", "5", "6", "7", "8", "9">>
IsDigit(c) == \E n \in 1..10 : DigitChars[n] = c
DigitVal(c) == (CHOOSE n \in 1..10 : DigitChars[n] = c) - 1
Digit(n) == DigitChars[n + 1]

Pad2(n) == <<Digit((n \div 10) % 10), Digit(n % 10)>>
Pad4(n) == <<Digit((n \div 1000) % 10), Digit((n \div 100) % 10)>> \o Pad2(n % 100)

\* date.isoformat(), which is how yaml.dump writes a date: YYYY-MM-DD.
IsoFormat(date) == Pad4(date.y) \o <<"-">> \o Pad2(date.m) \o <<"-">> \o Pad2(date.d)

Num2(s, i) == 10 * DigitVal(s[i]) + DigitVal(s[i + 1])

\* datetime.date.fromisoformat: the string is YYYY-MM-DD and names a day of
\* the calendar, or ValueError is raised.
IsIsoDate(s) ==
    /\ Len(s) = 10
    /\ s[5] = "-" /\ s[8] = "-"
    /\ \A i \in {1, 2, 3, 4, 6, 7, 9, 10} : IsDigit(s[i])
    /\ LET y == 100 * Num2(s, 1) + Num2(s, 3)
           m == Num2(s, 6)
           d == Num2(s, 9)
       IN  /\ y >= 1
           /\ m \in 1..12
           /\ d \in 1..DaysIn(y, m)
FromIso(s) == Date(100 * Num2(s, 1) + Num2(s, 3), Num2(s, 6), Num2(s, 9))

\* date.strftime("%B %d, %Y")
MonthNames == <<"January", "February", "March", "April", "May", "June", "July",
                "August", "September", "October", "November", "December">>
FmtDate(date) == <<MonthNames[date.m], Pad2(date.d), Pad4(date.y)>>

\* The strings --date is given on the command line.
DateStrings ==
    { <<"2", "0", "2", "1", "-", "0", "1", "-", "0", "1">>,
      <<"2", "0", "2", "3", "-", "0", "6", "-", "0", "1">>,
      <<"2", "0", "2", "4", "-", "0", "2", "-", "2", "9">>,
      <<"2", "0", "2", "3", "-", "0", "2", "-", "2", "9">>,
      <<"2", "0", "2", "1", "-", "1", "-", "1">> }

Todays == { Date(2023, 6, 1), Date(2026, 11, 3) }

\* Faulty variant of Post: self.date = datetime.date.today(), whatever was
\* passed.
PostAlwaysToday(title, date, hide, now) ==
    [title |-> title, date |-> now, type |-> "post",
     hide |-> IF hide # <<>> THEN hide ELSE <<"navigation">>]

\* Lines 25-36: Post(title=..., date=..., hide=...) and __post_init__.  A date
\* object is always truthy, so `self.date or today()` replaces None only; an
\* empty hide list is falsy.
Post(title, date, hide, now) ==
    [title |-> title,
     date |-> IF date # None THEN date[1] ELSE now,
     type |-> "post",
     hide |-> IF hide # <<>> THEN hide ELSE <<"navigation">>]

\* Lines 38-39: yaml.dump(asdict(self)), the keys the model keeps.
to_yaml(p) ==
    [date |-> IsoFormat(p.date), hide |-> p.hide, title |-> p.title, type |-> p.type]

\* Lines 8-22: TEMPLATE.format(...), the front matter and the heading.
TEMPLATE(title, post_fmt_date, front) ==
    [metadata |-> front, heading |-> [title |-> title, date |-> post_fmt_date]]

\* Lines 54-61: parser.parse_args() with a well-formed --date, or without one.
ParseArgs ==
    /\ spc = "start"
    /\ IF argv.date = None THEN TRUE ELSE IsIsoDate(argv.date[1])
    /\ args' = [title |-> argv.title,
                date |-> IF argv.date = None THEN None ELSE Some(FromIso(argv.date[1]))]
    /\ spc' = "parsed"
    /\ UNCHANGED <<argv, today, post, written, exitcode>>
    /\ UNCHANGED selectorVars

\* Lines 58-61: fromisoformat raises ValueError; argparse reports the error
\* and exits with status 2.
ParseArgsFail ==
    /\ spc = "start"
    /\ IF argv.date = None THEN FALSE ELSE ~IsIsoDate(argv.date[1])
    /\ exitcode' = Some(2)
    /\ spc' = "exit"
    /\ UNCHANGED <<argv, today, args, post, written>>
    /\ UNCHANGED selectorVars

\* Lines 63-65: the Post is constructed; main passes no hide list.
Construct ==
    /\ spc = "parsed"
    /\ post' = Post(args.title, args.date, <<>>, today)
    /\ spc' = "constructed"
    /\ UNCHANGED <<argv, today, args, written, exitcode>>
    /\ UNCHANGED selectorVars

\* Lines 67-75: the file is written and main returns 0.
Write ==
    /\ spc = "constructed"
    /\ written' = Some([dir |-> "blog/posts/",
                        name |-> slugify(post.title),
                        ext |-> ".md",
                        text |-> TEMPLATE(post.title, FmtDate(post.date), to_yaml(post))])
    /\ exitcode' = Some(0)
    /\ spc' = "exit"
    /\ UNCHANGED <<argv, today, args, post>>
    /\ UNCHANGED selectorVars

\* Line 67: open raises (blog/posts is missing); the error is not caught.
WriteFail ==
    /\ spc = "constructed"
    /\ exitcode' = Some(1)
    /\ spc' = "exit"
    /\ UNCHANGED <<argv, today, args, post, written>>
    /\ UNCHANGED selectorVars

NextPost ==
    \/ ParseArgs
    \/ ParseArgsFail
    \/ Construct
    \/ Write
    \/ WriteFail

SelectorOff ==
    /\ pages = <<>>
    /\ pc = "off"
    /\ limit = None
    /\ idx = 1
    /\ handles = {}
    /\ metadata = NoMeta
    /\ posts = <<>>
    /\ scanned = <<>>
    /\ opens = <<>>
    /\ reads = <<>>
    /\ last = None
    /\ error = "none"

\* The state in which the script starts.
InitPost ==
    /\ spc = "start"
    /\ argv \in [title : Titles, date : {None} \cup { Some(s) : s \in DateStrings }]
    /\ today \in Todays
    /\ args = [title |-> <<>>, date |-> None]
    /\ post = [title |-> <<>>, date |-> Date(1, 1, 1), type |-> "post", hide |-> <<>>]
    /\ written = None
    /\ exitcode = None
    /\ SelectorOff

SpecPost == InitPost /\ [][NextPost]_vars

---------------------------------------------------------------------------
\* One step of a call of the macro.
Next ==
    \/ \E l \in Limits : Call(l)
    \/ Open
    \/ OpenFail
    \/ ReadParse
    \/ ReadFail
    \/ Close
    \/ Sort
    \/ Return

ScriptOff ==
    /\ spc = "off"
    /\ argv = [title |-> <<>>, date |-> None]
    /\ today = Date(1, 1, 1)
    /\ args = [title |-> <<>>, date |-> None]
    /\ post = [title |-> <<>>, date |-> Date(1, 1, 1), type |-> "post", hide |-> <<>>]
    /\ written = None
    /\ exitcode = None

\* The state in which the generator first calls the macro.
Init ==
    /\ pages \in PageSeqs \cup {ScenarioPages}
    /\ pc = "idle"
    /\ limit = None
    /\ idx = 1
    /\ handles = {}
    /\ metadata = NoMeta
    /\ posts = <<>>
    /\ scanned = <<>>
    /\ opens = [i \in 1..Len(pages) |-> 0]
    /\ reads = [i \in 1..Len(pages) |-> 0]
    /\ last = None
    /\ error = "none"
    /\ ScriptOff

Spec == Init /\ [][Next]_vars

---------------------------------------------------------------------------
(* What the properties below talk about. *)

\* The pages whose front matter, as it stands in the file, has type "post".
PostPages == { i \in 1..Len(pages) : pages[i].front.type = Some("post") }

\* The posts whose front matter has no date.
DatelessPosts == { i \in PostPages : pages[i].front.date = None }

\* The limit and the result of the last call that returned.
LastLimit == last[1].limit
Result == last[1].result

\* The entries of a result that were read from page i.
EntriesOf(r, i) == { k \in 1..Len(r) : r[k].src = i }

FirstN(s, n) == SubSeq(s, 1, Min(n, Len(s)))

\* The step in which a call returns.
IsReturn == pc = "limit" /\ pc' = "idle"

\* The scan of the running (or last) call went through every page.
ScanComplete ==
    \/ pc = "limit"
    \/ pc = "loop" /\ idx > Len(pages)
    \/ pc = "idle" /\ last # None
    \/ pc = "raised" /\ error = "KeyError"

---------------------------------------------------------------------------
(* recent_posts *)

\* C1: a result holds only entries read from pages whose front matter has
\* type "post"; without a limit it holds exactly one entry for every such page
\* and none for a page whose type is absent or different; a page without a
\* type raises nothing: a KeyError only ever comes from the sort.
C1_OnlyPosts ==
    /\ last # None =>
        /\ \A k \in 1..Len(Result) : Result[k].src \in PostPages
        /\ LastLimit = None =>
              \A i \in 1..Len(pages) :
                  Cardinality(EntriesOf(Result, i)) = (IF i \in PostPages THEN 1 ELSE 0)
    /\ \A i \in 1..Len(scanned) :
          i \notin PostPages => \A k \in 1..Len(posts) : posts[k].src # i
    /\ error = "KeyError" => idx > Len(pages)

\* A call without a limit returned for pages of which one has no type, one
\* has another type and one is a post.
C1_Witness ==
    /\ last # None /\ LastLimit = None
    /\ \E i \in 1..Len(pages) : pages[i].front.type = None
    /\ \E i \in 1..Len(pages) : pages[i].front.type = Some("page")
    /\ Len(Result) = 1

\* C2: every result is non-increasing in date: an earlier entry is never
\* dated before a later one.
C2_SortedByDateDescending ==
    last # None =>
        \A i, j \in 1..Len(Result) :
            i < j => Result[i].date[1] >= Result[j].date[1]

\* Three posts that were scanned in ascending date order were returned.
C2_Witness ==
    /\ last # None
    /\ Len(pages) = 3
    /\ \A i \in 1..3 : pages[i].front = Meta(Some("post"), Some(i), None)
    /\ Len(Result) = 3

\* C3, as claimed: a call with limit N >= 0 returns at most min(N, number of
\* posts) entries and a call with limit None returns all posts.
C3_AtMostLimitFromZero ==
    last # None =>
        IF LastLimit = None
        THEN Len(Result) = Cardinality(PostPages)
        ELSE Len(Result) <= Min(LastLimit[1], Cardinality(PostPages))

\* C3, amended: a call with a limit N >= 1 returns at most min(N, number of
\* posts) entries; a call with limit None, and a call with limit 0, returns
\* all posts.
C3_AtMostPositiveLimit ==
    last # None =>
        IF LastLimit = None \/ LastLimit = Some(0)
        THEN Len(Result) = Cardinality(PostPages)
        ELSE Len(Result) <= Min(LastLimit[1], Cardinality(PostPages))

\* A call with limit 1 returned one of at least two posts.
C3_Witness ==
    /\ last # None /\ LastLimit = Some(1)
    /\ Cardinality(PostPages) >= 2
    /\ Len(Result) = 1

\* C4, between two calls: when a call with a truthy limit N returns after a
\* call without a limit, or the other way round, the result of the one with
\* the limit is the first N entries of the other's.
C4_PrefixStep ==
    IsReturn /\ last # None =>
        /\ (LastLimit = None /\ limit # None /\ limit # Some(0)) =>
              last'[1].result = FirstN(Result, limit[1])
        /\ (LastLimit # None /\ LastLimit # Some(0) /\ limit = None) =>
              Result = FirstN(last'[1].result, LastLimit[1])

\* C4, of one result: with a truthy limit N the result holds min(N, number
\* of posts) entries, and no post left out is dated after an entry of it; for
\* the posts dated 2023-01-01, 2023-06-01, 2023-03-01 and a non-post, N = 2
\* gives the post of 2023-06-01 and then that of 2023-03-01.
C4_LatestN ==
    (last # None /\ LastLimit # None /\ LastLimit # Some(0)) =>
        /\ Len(Result) = Min(LastLimit[1], Cardinality(PostPages))
        /\ \A i \in PostPages :
              EntriesOf(Result, i) = {} =>
                  \A k \in 1..Len(Result) : pages[i].front.date[1] <= Result[k].date[1]
        /\ (pages = ScenarioPages /\ LastLimit = Some(2)) =>
              /\ Len(Result) = 2
              /\ Result[1].src = 2 /\ Result[1].date = Some(3)
              /\ Result[2].src = 3 /\ Result[2].date = Some(2)

\* C4: a call with a truthy limit N returns exactly the first N entries of
\* what a call without a limit returns, that is the N latest posts, latest
\* first.
C4_FirstNOfAll == [] C4_LatestN /\ [][C4_PrefixStep]_vars

\* On the scenario's pages a call with limit 2 returned its two posts, and a
\* call without a limit is about to return.
C4_Witness ==
    /\ pages = ScenarioPages
    /\ last # None /\ LastLimit = Some(2) /\ Len(Result) = 2
    /\ pc = "limit" /\ limit = None /\ Len(posts) = 3

\* C5: when a post has no date no call ever returns: the scan can only end in
\* an exception, and a scan that went through every page ends in KeyError;
\* KeyError is raised only when a post has no date, never for a dateless page
\* that is no post.
C5_DatelessPostIsFatal ==
    /\ DatelessPosts # {} => last = None /\ pc # "limit"
    /\ (pc = "raised" /\ idx > Len(pages)) => error = "KeyError"
    /\ error = "KeyError" => DatelessPosts # {}

\* A call with a limit raised KeyError on pages whose only post has no date,
\* after it scanned a dateless page that is no post.
C5_Witness ==
    /\ pc = "raised" /\ error = "KeyError"
    /\ limit # None
    /\ Cardinality(PostPages) = 1
    /\ \E i \in 1..Len(pages) : i \notin PostPages /\ pages[i].front.date = None

\* C6: every entry of a result carries the URL of the page it was read from,
\* whatever url its front matter had; the mapping of a page that is not
\* retained keeps the url of its front matter.
C6_UrlOfPage ==
    /\ last # None =>
          \A k \in 1..Len(Result) : Result[k].url = Some(pages[Result[k].src].url)
    /\ \A i \in 1..Len(scanned) :
          i \notin PostPages => scanned[i].url = pages[i].front.url

\* A post whose front matter has a url of its own was returned, and a page
\* that is no post and has a url of its own was scanned in the same call.
C6_Witness ==
    /\ pc = "idle" /\ last # None
    /\ \E k \in 1..Len(Result) : pages[Result[k].src].front.url = Some("/custom/")
    /\ \E i \in 1..Len(scanned) :
          i \notin PostPages /\ scanned[i].url = Some("/custom/")

\* C7: a call that returns after a call with the same limit returns the same
\* sequence, and no step changes the page set.
C7_IdempotentStep ==
    /\ pages' = pages
    /\ (IsReturn /\ last # None /\ LastLimit = limit) => last'[1].result = Result

C7_Idempotent == [][C7_IdempotentStep]_vars

\* A second call with the limit of the first, which returned two entries or
\* more, is about to return.
C7_Witness ==
    /\ pc = "limit"
    /\ last # None /\ LastLimit = limit
    /\ Len(Result) >= 2

---------------------------------------------------------------------------
(* new_post.py *)

\* The script got past the construction of the Post.
Constructed == spc = "constructed" \/ (spc = "exit" /\ exitcode # Some(2))

\* C8: once the Post is constructed its date is the date given with --date,
\* or today's when none is given, and its hide list is ["navigation"]; the
\* date in the front matter of the written file is that date.
C8_PostDefaults ==
    /\ Constructed =>
          /\ argv.date # None => IsoFormat(post.date) = argv.date[1]
          /\ argv.date = None => post.date = today
          /\ post.hide = <<"navigation">>
    /\ written # None =>
          written[1].text.metadata.date =
              (IF argv.date # None THEN argv.date[1] ELSE IsoFormat(today))

\* The file for "Hello World" was written without --date.
C8_Witness ==
    /\ written # None
    /\ argv.title = HelloWorld
    /\ argv.date = None

\* C9: the slug has no uppercase character, holds only word characters and
\* single hyphens between them, none at either end; the file is
\* blog/posts/<slug>.md, and "Hello World" gives hello-world.
C9_SlugWellFormed ==
    written # None =>
        LET s == written[1].name
        IN  /\ s = slugify(argv.title)
            /\ written[1].dir = "blog/posts/" /\ written[1].ext = ".md"
            /\ \A i \in 1..Len(s) : s[i] \notin UpperChars
            /\ \A i \in 1..Len(s) : IsWord(s[i]) \/ s[i] = "-"
            /\ s # <<>> => s[1] # "-" /\ s[Len(s)] # "-"
            /\ \A i \in 1..(Len(s) - 1) : ~(s[i] = "-" /\ s[i + 1] = "-")
            /\ argv.title = HelloWorld =>
                  s = <<"h", "e", "l", "l", "o", "-", "w", "o", "r", "l", "d">>

=============================================================================
